---- MODULE Spec2Model ----
(***************************************************************************)
(* Model of the schema-driven validation and quality-scoring engine of     *)
(* ml-ops: src/data/validation.py (validate_schema, check_missing_values,  *)
(* check_duplicates, check_outliers, validate_data_quality) and the        *)
(* orchestrator DataIngestion.validate_data and the repair step            *)
(* DataIngestion.preprocess_data of src/data/ingestion.py.                 *)
(*                                                                         *)
(* A DataFrame is a record [columns, dtypes, rows]: the column names in    *)
(* order, the storage type (dtype string) of each column, and the rows in  *)
(* order, each a tuple of cells aligned with the columns. The row index is *)
(* pandas' default RangeIndex, so index labels are 0-based positions.      *)
(* Floating-point results are modelled as exact rationals <<num, den>> in  *)
(* lowest terms; NaN is <<0, 0>>. The cell values used are small integers, *)
(* for which quantile interpolation at 0.25/0.75 and the 1.5 factor are    *)
(* exact in binary floating point as well.                                 *)
(***************************************************************************)
EXTENDS Integers, Sequences, FiniteSets, TLC

VARIABLES df, schema, result, previous, calls, reports, pipeline

vars == <<df, schema, result, previous, calls, reports, pipeline>>

(***************************************************************************)
(* Bounds of the explored input space.                                     *)
(***************************************************************************)
\* rows of the tables checked against a schema
MaxRows == 2
\* rows of the one-column numeric tables of the quality analyzers
MaxQRows == 4
\* validate_schema calls whose outcomes a caller compares
MaxCalls == 2
\* rows of the tables of concurrent validate_data calls
MaxWorkerRows == 1
\* rows of the tables an ingestion pipeline loads
MaxPipelineRows == 2

(***************************************************************************)
(* Floating-point values as exact rationals.                               *)
(***************************************************************************)
Abs(n) == IF n < 0 THEN -n ELSE n

RECURSIVE Gcd(_, _)
Gcd(a, b) == IF b = 0 THEN a ELSE Gcd(b, a % b)

NaN == <<0, 0>>

IsNaN(r) == r[2] = 0

\* the float n/d, d # 0, in lowest terms with a positive denominator
Rat(n, d) ==
    LET g == Gcd(Abs(n), Abs(d))
        s == IF d < 0 THEN -1 ELSE 1
    IN  <<s * (n \div g), s * (d \div g)>>

Float(n) == <<n, 1>>

RAdd(a, b) == IF IsNaN(a) \/ IsNaN(b) THEN NaN
              ELSE Rat(a[1] * b[2] + b[1] * a[2], a[2] * b[2])

RSub(a, b) == IF IsNaN(a) \/ IsNaN(b) THEN NaN
              ELSE Rat(a[1] * b[2] - b[1] * a[2], a[2] * b[2])

RMul(a, b) == IF IsNaN(a) \/ IsNaN(b) THEN NaN
              ELSE Rat(a[1] * b[1], a[2] * b[2])

\* a < b; every comparison with NaN is false
RLt(a, b) == ~IsNaN(a) /\ ~IsNaN(b) /\ a[1] * b[2] < b[1] * a[2]

RGt(a, b) == RLt(b, a)

\* numpy true division of a count by a count: 0/0 is nan (with a warning)
NpDiv(n, d) == IF d = 0 THEN NaN ELSE Rat(n, d)

\* Python's builtin min(a, b): b only when b < a, so min(30, nan) is 30
PyMin(a, b) == IF RLt(b, a) THEN b ELSE a

(***************************************************************************)
(* Cells and tables.                                                       *)
(***************************************************************************)
\* a cell: null, a number num/den (den = 1 for the whole numbers a table is
\* loaded with) or a text
Null == [kind |-> "null", num |-> 0, den |-> 1, str |-> ""]

Num(n) == [kind |-> "num", num |-> n, den |-> 1, str |-> ""]

Str(s) == [kind |-> "str", num |-> 0, den |-> 1, str |-> s]

\* the number held by a numeric cell
Value(c) == <<c.num, c.den>>

\* the numeric cell holding the float r; nan is the null cell
FloatCell(r) ==
    IF IsNaN(r) THEN Null ELSE [kind |-> "num", num |-> r[1], den |-> r[2], str |-> ""]

isna(c) == c.kind = "null"

len(d) == Len(d.rows)

HasColumn(d, column) == \E j \in 1..Len(d.columns) : d.columns[j] = column

ColIndex(d, column) == CHOOSE j \in 1..Len(d.columns) : d.columns[j] = column

\* df[column]: the cells of one column, in row order
Col(d, j) == [i \in 1..len(d) |-> d.rows[i][j]]

\* df.select_dtypes(include=['number']): positions of the numeric columns
NumberDtypes == {"int64", "float64", "int32", "float32"}

numeric_columns(d) == {j \in 1..Len(d.columns) : d.dtypes[j] \in NumberDtypes}

RECURSIVE SumSeq(_)
SumSeq(s) == IF s = <<>> THEN 0 ELSE Head(s) + SumSeq(Tail(s))

\* ascending insertion sort of a sequence of numbers
RECURSIVE Insert(_, _)
Insert(x, s) == IF s = <<>> THEN <<x>>
                ELSE IF ~RLt(Head(s), x) THEN <<x>> \o s
                     ELSE <<Head(s)>> \o Insert(x, Tail(s))

RECURSIVE Sorted(_)
Sorted(s) == IF s = <<>> THEN <<>> ELSE Insert(Head(s), Sorted(Tail(s)))

\* a call's outcome: a returned value or a raised exception
Returned(v) == [raised |-> "", value |-> v]

Raised(e) == [raised |-> e, value |-> <<>>]

(***************************************************************************)
(* check_missing_values                                                    *)
(***************************************************************************)
\* critical_threshold = 0.2
critical_threshold == Rat(2, 10)

\* df.isna().sum(): null cells per column
missing_counts(d) ==
    [j \in 1..Len(d.columns) |-> Cardinality({i \in 1..len(d) : isna(d.rows[i][j])})]

\* (missing_counts / len(df)) * 100
missing_percentages(d) ==
    [j \in 1..Len(d.columns) |-> RMul(NpDiv(missing_counts(d)[j], len(d)), Float(100))]

\* mutant of missing_results: the total percentage scaled to 0..100 like the
\* per-column ones
missing_results_x100(d, counts, percentages) ==
    [total_missing |-> SumSeq(counts),
     total_cells |-> len(d) * Len(d.columns),
     total_missing_percentage |->
         RMul(NpDiv(SumSeq(counts), len(d) * Len(d.columns)), Float(100)),
     has_critical_missing |->
         \E j \in 1..Len(d.columns) : RGt(percentages[j], critical_threshold),
     missing_columns |->
         [c \in {d.columns[j] : j \in {x \in 1..Len(d.columns) : counts[x] > 0}} |->
             [count |-> counts[ColIndex(d, c)],
              percentage |-> percentages[ColIndex(d, c)]]]]

\* the results dictionary from the per-column counts and percentages
missing_results(d, counts, percentages) ==
    [total_missing |-> SumSeq(counts),
     total_cells |-> len(d) * Len(d.columns),
     total_missing_percentage |-> NpDiv(SumSeq(counts), len(d) * Len(d.columns)),
     has_critical_missing |->
         \E j \in 1..Len(d.columns) : RGt(percentages[j], critical_threshold),
     missing_columns |->
         [c \in {d.columns[j] : j \in {x \in 1..Len(d.columns) : counts[x] > 0}} |->
             [count |-> counts[ColIndex(d, c)],
              percentage |-> percentages[ColIndex(d, c)]]]]

check_missing_values(d) == missing_results(d, missing_counts(d), missing_percentages(d))

(***************************************************************************)
(* check_duplicates                                                        *)
(***************************************************************************)
\* mutant of duplicated: keep=False, every member of a duplicate group is marked
duplicated_keep_false(d) ==
    [i \in 1..len(d) |-> \E j \in 1..len(d) : j # i /\ d.rows[j] = d.rows[i]]

\* df.duplicated(): keep='first', null cells compare equal
duplicated(d) ==
    [i \in 1..len(d) |-> \E j \in 1..(i - 1) : d.rows[j] = d.rows[i]]

\* the results dictionary from the duplicated() mask and its sum
duplicate_results(d, duplicates, duplicate_count) ==
    [has_duplicates |-> duplicate_count > 0,
     duplicate_count |-> duplicate_count,
     duplicate_percentage |-> NpDiv(duplicate_count, len(d)),
     duplicate_indexes |->
         SelectSeq([i \in 1..len(d) |-> i - 1], LAMBDA p : duplicates[p + 1])]

check_duplicates(d) ==
    duplicate_results(d, duplicated(d), Cardinality({i \in 1..len(d) : duplicated(d)[i]}))

(***************************************************************************)
(* check_outliers                                                          *)
(***************************************************************************)
\* the non-null values of a column, in row order
RECURSIVE NonNull(_)
NonNull(cells) ==
    IF cells = <<>> THEN <<>>
    ELSE IF isna(Head(cells)) THEN NonNull(Tail(cells))
         ELSE <<Value(Head(cells))>> \o NonNull(Tail(cells))

\* Series.quantile(q), interpolation='linear', nulls skipped; nan when empty
\* s the ascending values, pos = (n - 1) * q the fractional index
interpolate(s, pos) ==
    LET k == pos[1] \div pos[2]
        frac == <<pos[1] - k * pos[2], pos[2]>>
    IN  IF frac[1] = 0 THEN s[k + 1]
        ELSE RAdd(s[k + 1], RMul(frac, RSub(s[k + 2], s[k + 1])))

quantile_sorted(s, q) ==
    IF Len(s) = 0 THEN NaN ELSE interpolate(s, RMul(Float(Len(s) - 1), q))

quantile(cells, q) == quantile_sorted(Sorted(NonNull(cells)), q)

\* Series.min() / Series.max() of a numeric column, nulls skipped
First(s) == IF s = <<>> THEN NaN ELSE s[1]

Last(s) == IF s = <<>> THEN NaN ELSE s[Len(s)]

SeriesMin(cells) == First(Sorted(NonNull(cells)))

SeriesMax(cells) == Last(Sorted(NonNull(cells)))

\* iqr = q3 - q1
iqr(q1, q3) == RSub(q3, q1)

\* lower_bound = q1 - 1.5 * iqr
lower_fence(q1, q3) == RSub(q1, RMul(Rat(3, 2), iqr(q1, q3)))

\* upper_bound = q3 + 1.5 * iqr
upper_fence(q1, q3) == RAdd(q3, RMul(Rat(3, 2), iqr(q1, q3)))

lower_bound(cells) == lower_fence(quantile(cells, Rat(1, 4)), quantile(cells, Rat(3, 4)))

upper_bound(cells) == upper_fence(quantile(cells, Rat(1, 4)), quantile(cells, Rat(3, 4)))

\* mutant of is_outlier: a value equal to a bound counts as an outlier
is_outlier_inclusive(c, lower, upper) ==
    ~isna(c) /\ ~(RGt(Value(c), lower) /\ RLt(Value(c), upper))

\* (df[column] < lower_bound) | (df[column] > upper_bound), one cell
is_outlier(c, lower, upper) ==
    ~isna(c) /\ (RLt(Value(c), lower) \/ RGt(Value(c), upper))

\* rows selected by the outlier mask of column j
rows_outside(d, j, lower, upper) ==
    {i \in 1..len(d) : is_outlier(d.rows[i][j], lower, upper)}

outlier_rows(d, j) == rows_outside(d, j, lower_bound(Col(d, j)), upper_bound(Col(d, j)))

\* the outlier_columns entry of column j
outlier_entry(d, j, outlier_count) ==
    [count |-> outlier_count,
     percentage |-> Rat(outlier_count, len(d)),
     lower_bound |-> lower_bound(Col(d, j)),
     upper_bound |-> upper_bound(Col(d, j)),
     min_value |-> SeriesMin(Col(d, j)),
     max_value |-> SeriesMax(Col(d, j))]

\* mutant of outlier_results: the overall percentage divided by the row count only
outlier_results_per_row(d, numeric, outlier_count) ==
    IF Cardinality(numeric) > 0 /\ len(d) * Cardinality(numeric) = 0
    THEN Raised("ZeroDivisionError")
    ELSE Returned(
          [total_outliers |-> SumSeq(outlier_count),
           outlier_percentage |->
               IF Cardinality(numeric) > 0
               THEN Rat(SumSeq(outlier_count), len(d))
               ELSE Float(0),
           outlier_columns |->
               [c \in {d.columns[j] : j \in {x \in numeric : outlier_count[x] > 0}} |->
                   outlier_entry(d, ColIndex(d, c), outlier_count[ColIndex(d, c)])]])

\* the results dictionary, from the outlier count of every column (0 for a
\* column that is not numeric); a raise when the overall percentage divides by 0
outlier_results(d, numeric, outlier_count) ==
    IF Cardinality(numeric) > 0 /\ len(d) * Cardinality(numeric) = 0
    THEN Raised("ZeroDivisionError")
    ELSE Returned(
          [total_outliers |-> SumSeq(outlier_count),
           outlier_percentage |->
               IF Cardinality(numeric) > 0
               THEN Rat(SumSeq(outlier_count), len(d) * Cardinality(numeric))
               ELSE Float(0),
           outlier_columns |->
               [c \in {d.columns[j] : j \in {x \in numeric : outlier_count[x] > 0}} |->
                   outlier_entry(d, ColIndex(d, c), outlier_count[ColIndex(d, c)])]])

check_outliers(d) ==
    outlier_results(d, numeric_columns(d),
                    [j \in 1..Len(d.columns) |->
                        IF j \in numeric_columns(d)
                        THEN Cardinality(outlier_rows(d, j)) ELSE 0])

(***************************************************************************)
(* validate_data_quality                                                   *)
(***************************************************************************)
\* mutant of quality_score: the outlier penalty scaled by 100 like the other two
quality_score_outliers_x100(missing_values, duplicates, outliers) ==
    LET s0 == Float(100)
        s1 == RSub(s0, PyMin(Float(30),
                             RMul(missing_values.total_missing_percentage, Float(100))))
        s2 == IF duplicates.has_duplicates
              THEN RSub(s1, PyMin(Float(20),
                                  RMul(duplicates.duplicate_percentage, Float(100))))
              ELSE s1
        s3 == IF outliers.total_outliers > 0
              THEN RSub(s2, PyMin(Float(20), RMul(outliers.outlier_percentage, Float(100))))
              ELSE s2
    IN  s3

\* mutant of quality_score: the penalties subtracted without their caps
quality_score_uncapped(missing_values, duplicates, outliers) ==
    LET s0 == Float(100)
        s1 == RSub(s0, RMul(missing_values.total_missing_percentage, Float(100)))
        s2 == IF duplicates.has_duplicates
              THEN RSub(s1, RMul(duplicates.duplicate_percentage, Float(100)))
              ELSE s1
        s3 == IF outliers.total_outliers > 0
              THEN RSub(s2, RMul(outliers.outlier_percentage, Float(10)))
              ELSE s2
    IN  s3

quality_score(missing_values, duplicates, outliers) ==
    LET s0 == Float(100)
        s1 == RSub(s0, PyMin(Float(30),
                             RMul(missing_values.total_missing_percentage, Float(100))))
        s2 == IF duplicates.has_duplicates
              THEN RSub(s1, PyMin(Float(20),
                                  RMul(duplicates.duplicate_percentage, Float(100))))
              ELSE s1
        s3 == IF outliers.total_outliers > 0
              THEN RSub(s2, PyMin(Float(20), RMul(outliers.outlier_percentage, Float(10))))
              ELSE s2
    IN  s3

\* the quality_results dictionary from the three analyzers' outcomes
quality_results(missing_values, duplicates, outliers) ==
    IF outliers.raised # "" THEN Raised(outliers.raised)
    ELSE Returned(
          [quality_score |-> quality_score(missing_values, duplicates, outliers.value),
           missing_values |-> missing_values,
           duplicates |-> duplicates,
           outliers |-> outliers.value])

validate_data_quality(d) ==
    quality_results(check_missing_values(d), check_duplicates(d), check_outliers(d))

(***************************************************************************)
(* validate_schema                                                         *)
(* A schema is the sequence of its (column, properties) items in dict      *)
(* order. An absent "min"/"max" is <<>>, a present one <<n>>; an absent    *)
(* "type" is "".                                                           *)
(***************************************************************************)
Issue(type, column, columns, expected, actual, constraint, invalid_values) ==
    [type |-> type, column |-> column, columns |-> columns, expected |-> expected,
     actual |-> actual, constraint |-> constraint, invalid_values |-> invalid_values]

\* type_mapping.get(expected_type, [expected_type])
type_mapping(expected_type) ==
    CASE expected_type = "numeric" -> {"int64", "float64", "int32", "float32"}
      [] expected_type = "string" -> {"object", "string"}
      [] expected_type = "datetime" -> {"datetime64", "datetime64[ns]"}
      [] expected_type = "boolean" -> {"bool"}
      [] expected_type = "category" -> {"category"}
      [] OTHER -> {expected_type}

\* EXPECTED_TYPES of schema.py: the storage types declared compatible with a kind
EXPECTED_TYPES(kind) ==
    CASE kind = "numeric" -> {"int64", "float64", "int32", "float32"}
      [] kind = "string" -> {"object", "string"}
      [] kind = "datetime" -> {"datetime64", "datetime64[ns]"}
      [] kind = "boolean" -> {"bool"}
      [] kind = "category" -> {"category", "object"}

\* required_columns that are not in df.columns, in schema order
RECURSIVE missing_columns(_, _)
missing_columns(d, sch) ==
    IF sch = <<>> THEN <<>>
    ELSE IF Head(sch).props.required /\ ~HasColumn(d, Head(sch).name)
         THEN <<Head(sch).name>> \o missing_columns(d, Tail(sch))
         ELSE missing_columns(d, Tail(sch))

\* the "wrong_data_type" check of one present column
type_issues(d, column, properties) ==
    LET actual_dtype == d.dtypes[ColIndex(d, column)]
    IN  IF properties.type # "" /\ actual_dtype \notin type_mapping(properties.type)
        THEN <<Issue("wrong_data_type", column, <<>>, properties.type, actual_dtype,
                     <<>>, {})>>
        ELSE <<>>

\* df[column].min() < min_value raises TypeError when the column holds text:
\* the minimum of a non-empty text column is a str, not comparable with a number
compare_raises(cells) == \E i \in DOMAIN cells : cells[i].kind = "str"

\* mutant of range_issues: one issue for every row that violates a bound
range_issues_per_row(d, column, properties) ==
    LET cells == Col(d, ColIndex(d, column))
        checked == properties.type = "numeric"
        has_min == checked /\ properties.min # <<>>
        has_max == checked /\ properties.max # <<>>
        low == SelectSeq(cells, LAMBDA c : has_min /\ ~isna(c)
                                           /\ c.num < properties.min[1])
        high == SelectSeq(cells, LAMBDA c : has_max /\ ~isna(c)
                                            /\ c.num > properties.max[1])
    IN  IF (has_min \/ has_max) /\ compare_raises(cells)
        THEN Raised("TypeError")
        ELSE Returned(
              [i \in 1..Len(low) |->
                  Issue("out_of_range", column, <<>>, "", "",
                        <<">=", properties.min[1]>>, {})]
              \o
              [i \in 1..Len(high) |->
                  Issue("out_of_range", column, <<>>, "", "",
                        <<"<=", properties.max[1]>>, {})])

\* the "out_of_range" checks of one present column; a raise aborts the call
range_issues(d, column, properties) ==
    LET cells == Col(d, ColIndex(d, column))
        checked == properties.type = "numeric"
        has_min == checked /\ properties.min # <<>>
        has_max == checked /\ properties.max # <<>>
    IN  IF (has_min \/ has_max) /\ compare_raises(cells)
        THEN Raised("TypeError")
        ELSE Returned(
              (IF has_min /\ RLt(SeriesMin(cells), Float(properties.min[1]))
               THEN <<Issue("out_of_range", column, <<>>, "", "",
                            <<">=", properties.min[1]>>, {})>>
               ELSE <<>>)
              \o
              (IF has_max /\ RGt(SeriesMax(cells), Float(properties.max[1]))
               THEN <<Issue("out_of_range", column, <<>>, "", "",
                            <<"<=", properties.max[1]>>, {})>>
               ELSE <<>>))

\* mutant of categorical_issues: without dropna(), a null cell is a value too
categorical_issues_with_nulls(d, column, properties) ==
    LET cells == Col(d, ColIndex(d, column))
        allowed_values == {Str(v) : v \in properties.allowed_values}
        actual_values == {cells[i] : i \in DOMAIN cells}
        invalid_values == actual_values \ allowed_values
    IN  IF properties.type \in {"string", "category"} /\ properties.has_allowed_values
           /\ invalid_values # {}
        THEN <<Issue("invalid_categorical_values", column, <<>>, "", "", <<>>,
                     invalid_values)>>
        ELSE <<>>

\* the "invalid_categorical_values" check of one present column
categorical_issues(d, column, properties) ==
    LET cells == Col(d, ColIndex(d, column))
        allowed_values == {Str(v) : v \in properties.allowed_values}
        actual_values == {cells[i] : i \in {k \in DOMAIN cells : ~isna(cells[k])}}
        invalid_values == actual_values \ allowed_values
    IN  IF properties.type \in {"string", "category"} /\ properties.has_allowed_values
           /\ invalid_values # {}
        THEN <<Issue("invalid_categorical_values", column, <<>>, "", "", <<>>,
                     invalid_values)>>
        ELSE <<>>

\* Series.is_unique: no two cells equal, null cells included
is_unique(cells) ==
    \A i, k \in DOMAIN cells : cells[i] = cells[k] => i = k

\* the "uniqueness_violation" check of one present column
uniqueness_issues(d, column, properties) ==
    IF properties.unique /\ ~is_unique(Col(d, ColIndex(d, column)))
    THEN <<Issue("uniqueness_violation", column, <<>>, "", "", <<>>, {})>>
    ELSE <<>>

\* the checks of a column that is in the table, in source order; range is the
\* outcome of the range check, whose raise aborts the call
present_column_issues(d, column, properties, range) ==
    IF range.raised # "" THEN range
    ELSE Returned(type_issues(d, column, properties)
                  \o range.value
                  \o categorical_issues(d, column, properties)
                  \o uniqueness_issues(d, column, properties))

\* mutant of column_issues: an absent required column is reported again in the loop
column_issues_repeating(d, column, properties) ==
    IF ~HasColumn(d, column)
    THEN IF properties.required
         THEN Returned(<<Issue("missing_required_columns", "", <<column>>, "", "",
                                <<>>, {})>>)
         ELSE Returned(<<Issue("missing_optional_column", column, <<>>, "", "",
                                <<>>, {})>>)
    ELSE present_column_issues(d, column, properties,
                               range_issues(d, column, properties))

\* mutant of column_issues: an absent optional column is skipped silently
column_issues_skip_optional(d, column, properties) ==
    IF ~HasColumn(d, column)
    THEN Returned(<<>>)
    ELSE present_column_issues(d, column, properties,
                               range_issues(d, column, properties))

\* one iteration of the loop over schema.items()
column_issues(d, column, properties) ==
    IF ~HasColumn(d, column)
    THEN IF properties.required
         THEN Returned(<<>>)
         ELSE Returned(<<Issue("missing_optional_column", column, <<>>, "", "",
                                <<>>, {})>>)
    ELSE present_column_issues(d, column, properties,
                               range_issues(d, column, properties))

\* the loop over schema.items(), from item k on, with the issues so far
RECURSIVE schema_loop(_, _, _, _)

\* after the iteration for item k, whose outcome is step
loop_step(d, sch, k, issues, step) ==
    IF step.raised # "" THEN step
    ELSE schema_loop(d, sch, k + 1, issues \o step.value)

schema_loop(d, sch, k, issues) ==
    IF k > Len(sch) THEN Returned(issues)
    ELSE loop_step(d, sch, k, issues, column_issues(d, sch[k].name, sch[k].props))

\* is_valid = len(issues) == 0
overall_validity(issues) == Len(issues) = 0

\* mutant of new_issues: the list of the caller's previous call is appended to
kept_issues ==
    IF previous.calls > 0 /\ previous.raised = "" THEN previous.value.issues ELSE <<>>

\* issues = []: every call starts a list of its own
new_issues == <<>>

\* the "missing_required_columns" issue, if any required column is missing
required_issues(missing) ==
    IF missing # <<>>
    THEN new_issues \o <<Issue("missing_required_columns", "", missing, "", "", <<>>, {})>>
    ELSE new_issues

\* return is_valid, issues - unless the loop raised
schema_verdict(looped) ==
    IF looped.raised # "" THEN looped
    ELSE Returned([is_valid |-> overall_validity(looped.value),
                   issues |-> looped.value])

\* mutant of validate_schema: a table column that the schema does not name is
\* reported as an issue
validate_schema_strict(d, sch) ==
    schema_verdict(
        schema_loop(d, sch, 1,
                    required_issues(missing_columns(d, sch))
                    \o SelectSeq([j \in 1..Len(d.columns) |->
                                     Issue("unexpected_column", d.columns[j], <<>>, "", "",
                                           <<>>, {})],
                                 LAMBDA issue :
                                     \A k \in 1..Len(sch) : sch[k].name # issue.column)))

validate_schema(d, sch) ==
    schema_verdict(schema_loop(d, sch, 1, required_issues(missing_columns(d, sch))))

(***************************************************************************)
(* DataIngestion.validate_data                                             *)
(***************************************************************************)
\* mutant of overall_is_valid: outliers fail validation too
overall_is_valid_outliers(schema_valid, missing_check, duplicate_check, outlier_check) ==
    /\ schema_valid
    /\ ~missing_check.has_critical_missing
    /\ ~duplicate_check.has_duplicates
    /\ outlier_check.total_outliers = 0

\* schema_valid and not has_critical_missing and not has_duplicates
overall_is_valid(schema_valid, missing_check, duplicate_check, outlier_check) ==
    /\ schema_valid
    /\ ~missing_check.has_critical_missing
    /\ ~duplicate_check.has_duplicates

\* return is_valid, validation_results from the four checks' outcomes, made in
\* this order; the first raise propagates
validation_outcome(schema_check, missing_check, duplicate_check, outlier_check) ==
    IF schema_check.raised # "" THEN Raised(schema_check.raised)
    ELSE IF outlier_check.raised # "" THEN Raised(outlier_check.raised)
    ELSE Returned(
          [is_valid |-> overall_is_valid(schema_check.value.is_valid, missing_check,
                                         duplicate_check, outlier_check.value),
           validation_results |->
               [schema_validation |-> [valid |-> schema_check.value.is_valid,
                                       issues |-> schema_check.value.issues],
                missing_values |-> missing_check,
                duplicates |-> duplicate_check,
                outliers |-> outlier_check.value]])

validate_data(d, sch) ==
    validation_outcome(validate_schema(d, sch), check_missing_values(d),
                       check_duplicates(d), check_outliers(d))

(***************************************************************************)
(* DataIngestion.preprocess_data                                           *)
(* During a call the names df and processed_df refer to one table object   *)
(* (aliased) or to two: binding processed_df to the result of a method     *)
(* that builds a new table separates them, a column assignment             *)
(* processed_df[col] = ... writes the object processed_df refers to.       *)
(***************************************************************************)
\* mutant of copy: processed_df = df, without a copy
no_copy(d) == [df |-> d, processed_df |-> d, aliased |-> TRUE]

\* processed_df = df.copy()
copy(d) == [df |-> d, processed_df |-> d, aliased |-> FALSE]

\* processed_df = <a new table>
rebind(names, table) == [df |-> names.df, processed_df |-> table, aliased |-> FALSE]

\* processed_df[col] = <cells>, for the columns in which table differs
assign(names, table) ==
    [df |-> IF names.aliased THEN table ELSE names.df,
     processed_df |-> table,
     aliased |-> names.aliased]

\* the table of the rows at the given positions, in that order
TakeRows(d, positions) ==
    [columns |-> d.columns,
     dtypes |-> d.dtypes,
     rows |-> [x \in 1..Len(positions) |-> d.rows[positions[x]]]]

\* mutant of drop_duplicates: keep=False, no member of a duplicate group is kept
drop_duplicates_keep_none(d) ==
    TakeRows(d, SelectSeq([i \in 1..len(d) |-> i],
                          LAMBDA i : \A k \in 1..len(d) : k # i => d.rows[k] # d.rows[i]))

\* mutant of drop_duplicates: keep='last', the last member of a group is kept
drop_duplicates_keep_last(d) ==
    TakeRows(d, SelectSeq([i \in 1..len(d) |-> i],
                          LAMBDA i : \A k \in (i + 1)..len(d) : d.rows[k] # d.rows[i]))

\* DataFrame.drop_duplicates(): the rows that duplicated() does not mark
drop_duplicates(d) ==
    TakeRows(d, SelectSeq([i \in 1..len(d) |-> i], LAMBDA i : ~duplicated(d)[i]))

\* the middle of the ascending values s: nan when there is none
middle(s) ==
    IF Len(s) = 0 THEN NaN
    ELSE IF Len(s) % 2 = 1 THEN s[(Len(s) + 1) \div 2]
         ELSE RMul(Rat(1, 2), RAdd(s[Len(s) \div 2], s[Len(s) \div 2 + 1]))

\* Series.median(), nulls skipped
median(cells) == middle(Sorted(NonNull(cells)))

\* Series.fillna(value); filling with nan leaves the nulls
fillna(cells, value) ==
    [i \in 1..Len(cells) |-> IF isna(cells[i]) THEN value ELSE cells[i]]

\* the texts that cells may hold, in Python's str order
TextOrder ==
    <<"A", "B", "C", "C1", "C2", "C3", "C4", "C5", "Male", "N/A", "Unknown",
      "thirty", "zzz">>

TextRank(c) == CHOOSE r \in 1..Len(TextOrder) : TextOrder[r] = c.str

Occurrences(cells, c) == Cardinality({i \in 1..Len(cells) : cells[i] = c})

\* Series.mode(): the most frequent non-null values, sorted - as a set
mode(cells) ==
    {cells[i] : i \in {x \in 1..Len(cells) :
        /\ ~isna(cells[x])
        /\ \A y \in 1..Len(cells) :
              ~isna(cells[y]) => Occurrences(cells, cells[y]) <= Occurrences(cells, cells[x])}}

\* Series.mode()[0]: the first of the sorted modes
first_mode(modes) == CHOOSE c \in modes : \A o \in modes : TextRank(c) <= TextRank(o)

has_null(cells) == \E i \in 1..Len(cells) : isna(cells[i])

\* select_dtypes(include=['object', 'category']): positions of those columns
cat_columns(d) == {j \in 1..Len(d.columns) : d.dtypes[j] \in {"object", "category"}}

\* the table with the cells of every column replaced by what column_cells gives
WithColumns(d, column_cells) ==
    [columns |-> d.columns,
     dtypes |-> d.dtypes,
     rows |-> [i \in 1..len(d) |-> [j \in 1..Len(d.columns) |-> column_cells[j][i]]]]

\* for col in numeric_cols: fill the nulls, if any, with the column's median
fill_numeric(d) ==
    WithColumns(d, [j \in 1..Len(d.columns) |->
                       IF j \in numeric_columns(d) /\ has_null(Col(d, j))
                       THEN fillna(Col(d, j), FloatCell(median(Col(d, j))))
                       ELSE Col(d, j)])

\* for col in cat_cols: fill the nulls, if any, with the column's first mode
fill_categorical(d) ==
    WithColumns(d, [j \in 1..Len(d.columns) |->
                       IF j \in cat_columns(d) /\ has_null(Col(d, j))
                       THEN fillna(Col(d, j), first_mode(mode(Col(d, j))))
                       ELSE Col(d, j)])

\* mode()[0] of a column of nulls only: the Series of modes is empty
mode_raises(d) ==
    \E j \in cat_columns(d) : has_null(Col(d, j)) /\ mode(Col(d, j)) = {}

\* mutant of clip: only the upper bound is applied
clip_upper_only(c, lower, upper) ==
    IF isna(c) THEN c
    ELSE IF RGt(Value(c), upper) THEN FloatCell(upper)
    ELSE c

\* Series.clip(lower, upper), one cell; a nan bound does not bound
clip(c, lower, upper) ==
    IF isna(c) THEN c
    ELSE IF RLt(Value(c), lower) THEN FloatCell(lower)
    ELSE IF RGt(Value(c), upper) THEN FloatCell(upper)
    ELSE c

clip_cells(cells, lower, upper) ==
    [i \in 1..Len(cells) |-> clip(cells[i], lower, upper)]

\* a whole-number column becomes float64 once it holds a fraction
clipped_dtype(dtype, cells) ==
    IF \E i \in 1..Len(cells) : cells[i].den # 1 THEN "float64" ELSE dtype

WithDtypes(d) ==
    [columns |-> d.columns,
     dtypes |-> [j \in 1..Len(d.columns) |-> clipped_dtype(d.dtypes[j], Col(d, j))],
     rows |-> d.rows]

\* for col in numeric_cols: clip the column to its own IQR bounds
clip_numeric(d) ==
    WithDtypes(
        WithColumns(d, [j \in 1..Len(d.columns) |->
                           IF j \in numeric_columns(d)
                           THEN clip_cells(Col(d, j), lower_bound(Col(d, j)),
                                           upper_bound(Col(d, j)))
                           ELSE Col(d, j)]))

\* if drop_duplicates: processed_df = processed_df.drop_duplicates()
drop_step(names, flag) ==
    IF flag THEN rebind(names, drop_duplicates(names.processed_df)) ELSE names

\* if handle_missing: the two filling loops; the second may raise
missing_step(names, flag) ==
    IF ~flag THEN [raised |-> "", names |-> names]
    ELSE IF mode_raises(fill_numeric(names.processed_df))
         THEN [raised |-> "KeyError",
               names |-> assign(names, fill_numeric(names.processed_df))]
         ELSE [raised |-> "",
               names |-> assign(names,
                                fill_categorical(fill_numeric(names.processed_df)))]

\* mutant of outlier_step: the clipping loop runs whatever the flag
outlier_step_always(step, flag) ==
    IF step.raised # "" THEN step
    ELSE [raised |-> "", names |-> assign(step.names, clip_numeric(step.names.processed_df))]

\* if handle_outliers: the clipping loop
outlier_step(step, flag) ==
    IF step.raised # "" \/ ~flag THEN step
    ELSE [raised |-> "", names |-> assign(step.names, clip_numeric(step.names.processed_df))]

\* return processed_df - with the table the caller's df refers to afterwards
returned_table(step) ==
    [raised |-> step.raised,
     value |-> IF step.raised = "" THEN step.names.processed_df ELSE <<>>,
     df |-> step.names.df]

preprocess_data(d, drop_flag, handle_missing, handle_outliers) ==
    returned_table(
        outlier_step(missing_step(drop_step(copy(d), drop_flag), handle_missing),
                     handle_outliers))

(***************************************************************************)
(* Inputs: the schemas and the tables the calls are explored on.           *)
(***************************************************************************)
Props(type, required, min, max, has_allowed_values, allowed_values, unique) ==
    [type |-> type, required |-> required, min |-> min, max |-> max,
     has_allowed_values |-> has_allowed_values, allowed_values |-> allowed_values,
     unique |-> unique]

Item(name, props) == [name |-> name, props |-> props]

\* items of TELECOM_DATA_SCHEMA
customer_id_item ==
    Item("customer_id", Props("string", TRUE, <<>>, <<>>, FALSE, {}, TRUE))

age_item == Item("age", Props("numeric", TRUE, <<18>>, <<120>>, FALSE, {}, FALSE))

gender_item ==
    Item("gender", Props("category", FALSE, <<>>, <<>>, TRUE,
                         {"Male", "Female", "Other", "Prefer not to say"}, FALSE))

monthly_charges_item ==
    Item("monthly_charges", Props("numeric", TRUE, <<0>>, <<>>, FALSE, {}, FALSE))

\* caller-supplied variants: gender kept as text, age optional
gender_string_item ==
    Item("gender", Props("string", FALSE, <<>>, <<>>, TRUE,
                         {"Male", "Female", "Other", "Prefer not to say"}, FALSE))

age_optional_item ==
    Item("age", Props("numeric", FALSE, <<18>>, <<120>>, FALSE, {}, FALSE))

\* caller-supplied: bounds and allowed values on an item that declares no type
age_untyped_item == Item("age", Props("", FALSE, <<18>>, <<120>>, FALSE, {}, TRUE))

gender_untyped_item ==
    Item("gender", Props("", FALSE, <<>>, <<>>, TRUE, {"Male", "Female"}, TRUE))

Schemas ==
    { <<customer_id_item, age_item, gender_item>>,
      <<customer_id_item, age_item>>,
      <<monthly_charges_item>>,
      <<gender_string_item, age_optional_item>>,
      <<age_untyped_item, gender_untyped_item>> }

\* a column of a table layout: its name and whether it is stored as numbers or text
Layout(name, storage) == [name |-> name, storage |-> storage]

\* the cells a column of the explored tables may hold
Domain(column) ==
    CASE column = Layout("customer_id", "text") -> {Str("C1"), Str("C2"), Null}
      [] column = Layout("age", "num") -> {Num(15), Num(30), Num(130)}
      [] column = Layout("age", "text") -> {Str("thirty")}
      [] column = Layout("gender", "text") -> {Str("Male"), Str("Unknown"), Null}
      [] column = Layout("monthly_charges", "num") ->
             {Num(0), Num(1), Num(5), Num(6), Null}

RECURSIVE RowSet(_)
RowSet(layout) ==
    IF layout = <<>> THEN {<<>>}
    ELSE {<<c>> \o r : c \in Domain(Head(layout)), r \in RowSet(Tail(layout))}

\* the dtype pandas infers: int64 for whole numbers, float64 once a null is
\* present, object for text
InferDtype(storage, rows, j) ==
    IF storage = "text" THEN "object"
    ELSE IF \E i \in 1..Len(rows) : isna(rows[i][j]) THEN "float64" ELSE "int64"

Table(layout, rows) ==
    [columns |-> [j \in 1..Len(layout) |-> layout[j].name],
     dtypes |-> [j \in 1..Len(layout) |-> InferDtype(layout[j].storage, rows, j)],
     rows |-> rows]

RECURSIVE RowSeqs(_, _)
RowSeqs(rowset, n) ==
    IF n = 0 THEN {<<>>}
    ELSE LET shorter == RowSeqs(rowset, n - 1)
         IN  shorter \cup {Append(rs, r) : rs \in {x \in shorter : Len(x) = n - 1},
                                           r \in rowset}

TablesOf(layout, n) == {Table(layout, rows) : rows \in RowSeqs(RowSet(layout), n)}

\* tables checked against the schemas: one or two of the schema's columns
SchemaLayouts ==
    { <<Layout("customer_id", "text")>>,
      <<Layout("age", "num")>>,
      <<Layout("age", "text")>>,
      <<Layout("gender", "text")>>,
      <<Layout("customer_id", "text"), Layout("age", "num")>>,
      <<Layout("customer_id", "text"), Layout("age", "text")>>,
      <<Layout("customer_id", "text"), Layout("gender", "text")>>,
      <<Layout("age", "num"), Layout("gender", "text")>>,
      <<Layout("age", "text"), Layout("gender", "text")>> }

SchemaTables == UNION {TablesOf(layout, MaxRows) : layout \in SchemaLayouts}

\* one numeric column, long enough for quartiles to separate an outlier
QualityTables == TablesOf(<<Layout("monthly_charges", "num")>>, MaxQRows)

NumColumn(name, values) ==
    Table(<<Layout(name, "num")>>, [i \in 1..Len(values) |-> <<values[i]>>])

TextColumn(name, values) ==
    Table(<<Layout(name, "text")>>, [i \in 1..Len(values) |-> <<values[i]>>])

\* rows [A, B, A, A, C]
DuplicateExample ==
    TextColumn("customer_id", <<Str("A"), Str("B"), Str("A"), Str("A"), Str("C")>>)

\* the column [1, 2, 3, 4, 5, 100]
OutlierExample ==
    NumColumn("monthly_charges", <<Num(1), Num(2), Num(3), Num(4), Num(5), Num(100)>>)

\* 10 cells, one null, no duplicate row, no outlier
MissingExample ==
    NumColumn("monthly_charges",
              <<Num(1), Num(2), Num(3), Num(4), Num(5), Num(6), Num(7), Num(8), Num(9),
                Null>>)

\* 20 cells, two null (one row a duplicate of the other), no outlier
MissingDuplicateExample ==
    NumColumn("monthly_charges",
              <<Num(1), Num(2), Num(3), Num(4), Num(5), Num(6), Num(7), Num(8), Num(9),
                Num(10), Num(11), Num(12), Num(13), Num(14), Num(15), Num(16), Num(17),
                Num(18), Null, Null>>)

\* null cells, duplicate rows and an outlier (100) in one table
AllFindingsExample ==
    NumColumn("monthly_charges",
              <<Num(1), Num(1), Num(1), Num(2), Num(100), Null, Null>>)

\* two numeric columns and a text column; only age has an outlier (130)
OneOfTwoOutlierExample ==
    Table(<<Layout("age", "num"), Layout("monthly_charges", "num"),
            Layout("customer_id", "text")>>,
          << <<Num(30), Num(1), Str("C1")>>, <<Num(30), Num(2), Str("C2")>>,
             <<Num(30), Num(3), Str("C3")>>, <<Num(30), Num(4), Str("C4")>>,
             <<Num(130), Num(5), Str("C5")>> >>)

\* two numeric columns, two outliers in age and one in monthly_charges
BothOutlierExample ==
    Table(<<Layout("age", "num"), Layout("monthly_charges", "num")>>,
          << <<Num(30), Num(1)>>, <<Num(30), Num(1)>>, <<Num(30), Num(1)>>,
             <<Num(30), Num(1)>>, <<Num(30), Num(1)>>, <<Num(30), Num(1)>>,
             <<Num(30), Num(1)>>, <<Num(30), Num(1)>>, <<Num(15), Num(1)>>,
             <<Num(130), Num(100)>> >>)

\* 4 rows, 2 columns, one null cell
MissingFractionExample ==
    Table(<<Layout("customer_id", "text"), Layout("monthly_charges", "num")>>,
          << <<Str("C1"), Num(1)>>, <<Str("C2"), Null>>,
             <<Str("C3"), Num(3)>>, <<Str("C4"), Num(4)>> >>)

\* gender with two distinct offending values, one of them repeated, and a null
CategoricalExample ==
    Table(<<Layout("customer_id", "text"), Layout("gender", "text")>>,
          << <<Str("C1"), Str("Male")>>, <<Str("C2"), Str("Unknown")>>,
             <<Str("C3"), Str("N/A")>>, <<Str("C4"), Null>>,
             <<Str("C5"), Str("Unknown")>> >>)

\* further tables checked against every schema
SchemaExampleTables == {CategoricalExample}

ExampleTables ==
    {DuplicateExample, OutlierExample, MissingExample, MissingDuplicateExample,
     AllFindingsExample, OneOfTwoOutlierExample, BothOutlierExample,
     MissingFractionExample}

\* the schema the one-column tables are checked against
QualitySchema == <<monthly_charges_item>>

(***************************************************************************)
(* The state machine: a caller holding a table and a schema makes calls;   *)
(* result is the outcome of the last call.                                 *)
(***************************************************************************)
Outcome(op, r) == [op |-> op, raised |-> r.raised, value |-> r.value]

Init ==
    /\ \/ df \in SchemaTables \cup SchemaExampleTables /\ schema \in Schemas
       \/ df \in QualityTables \cup ExampleTables /\ schema = QualitySchema
    /\ result = Outcome("none", Returned(<<>>))
    /\ previous = [calls |-> 0, raised |-> "", value |-> <<>>]
    /\ calls = <<>>
    /\ reports = <<>>
    /\ pipeline = [pc |-> "idle"]

ValidateSchema ==
    /\ result' = Outcome("validate_schema", validate_schema(df, schema))
    /\ UNCHANGED <<df, schema, previous, calls, reports, pipeline>>

CheckMissingValues ==
    /\ result' = Outcome("check_missing_values", Returned(check_missing_values(df)))
    /\ UNCHANGED <<df, schema, previous, calls, reports, pipeline>>

CheckDuplicates ==
    /\ result' = Outcome("check_duplicates", Returned(check_duplicates(df)))
    /\ UNCHANGED <<df, schema, previous, calls, reports, pipeline>>

CheckOutliers ==
    /\ result' = Outcome("check_outliers", check_outliers(df))
    /\ UNCHANGED <<df, schema, previous, calls, reports, pipeline>>

ValidateDataQuality ==
    /\ result' = Outcome("validate_data_quality", validate_data_quality(df))
    /\ UNCHANGED <<df, schema, previous, calls, reports, pipeline>>

ValidateData ==
    /\ result' = Outcome("validate_data", validate_data(df, schema))
    /\ UNCHANGED <<df, schema, previous, calls, reports, pipeline>>

\* the call has ended with outcome: result holds the table it returned (none
\* when it raised) and how it was called, df the caller's table as the call
\* left it
Preprocessed(outcome, drop_flag, handle_missing, handle_outliers) ==
    /\ result' = [op |-> "preprocess_data",
                  raised |-> outcome.raised,
                  value |-> [table |-> outcome.value,
                             drop_duplicates |-> drop_flag,
                             handle_missing |-> handle_missing,
                             handle_outliers |-> handle_outliers]]
    /\ df' = outcome.df
    /\ UNCHANGED <<schema, previous, calls, reports, pipeline>>

PreprocessData ==
    \E drop_flag, handle_missing, handle_outliers \in BOOLEAN :
        Preprocessed(preprocess_data(df, drop_flag, handle_missing, handle_outliers),
                     drop_flag, handle_missing, handle_outliers)

Next ==
    \/ PreprocessData
    \/ ValidateSchema
    \/ CheckMissingValues
    \/ CheckDuplicates
    \/ CheckOutliers
    \/ ValidateDataQuality
    \/ ValidateData

Spec == Init /\ [][Next]_vars

(***************************************************************************)
(* A caller that validates the same table against the same schema again,   *)
(* after other validation and quality calls, and keeps the outcome of its   *)
(* latest validate_schema call in previous to compare the next one with.   *)
(***************************************************************************)
\* what the caller keeps of a validate_schema call, with the number of calls made
Kept(n, r) == [calls |-> n, raised |-> r.raised, value |-> r.value]

Revalidated(outcome) ==
    /\ result' = Outcome("validate_schema", outcome)
    /\ previous' = Kept(previous.calls + 1, outcome)
    /\ UNCHANGED <<df, schema, calls, reports, pipeline>>

RevalidateSchema ==
    /\ previous.calls < MaxCalls
    /\ Revalidated(validate_schema(df, schema))

NextRevalidate ==
    \/ RevalidateSchema
    \/ CheckMissingValues
    \/ CheckDuplicates
    \/ CheckOutliers
    \/ ValidateDataQuality
    \/ ValidateData

SpecRevalidate == Init /\ [][NextRevalidate]_vars

(***************************************************************************)
(* Concurrent validate_data calls: each worker validates a table of its    *)
(* own against the one schema object they share, one statement group at a  *)
(* time, in any interleaving. calls holds each call's frame (its df, its   *)
(* position, its locals and the reference to its validation_results),      *)
(* reports the validation_results dictionaries by reference.               *)
(***************************************************************************)
Workers == {"w1", "w2"}

WorkerTables ==
    UNION {TablesOf(layout, MaxWorkerRows) :
              layout \in { <<Layout("age", "num")>>,
                           <<Layout("age", "text")>>,
                           <<Layout("monthly_charges", "num")>> }}

WorkerSchemas == { <<customer_id_item, age_item>>, QualitySchema }

\* an entry or a local that is not set yet
None == [none |-> TRUE]

\* validation_results = {"schema_validation": None, ...}
empty_results ==
    [schema_validation |-> None, missing_values |-> None, duplicates |-> None,
     outliers |-> None]

\* mutant of new_results: one dictionary shared by every call
shared_results(w) == "w1"

\* the dictionary a call creates is its own
new_results(w) == w

Frame(table) ==
    [df |-> table, pc |-> "start", raised |-> "", validation_results |-> "",
     schema_valid |-> FALSE, missing_check |-> None, duplicate_check |-> None,
     outlier_check |-> None, is_valid |-> FALSE]

NoTable == [columns |-> <<>>, dtypes |-> <<>>, rows |-> <<>>]

InitConcurrent ==
    /\ schema \in WorkerSchemas
    /\ calls \in [Workers -> {Frame(table) : table \in WorkerTables}]
    /\ reports = [r \in Workers |-> empty_results]
    /\ df = NoTable
    /\ result = Outcome("none", Returned(<<>>))
    /\ previous = [calls |-> 0, raised |-> "", value |-> <<>>]
    /\ pipeline = [pc |-> "idle"]

\* validation_results = {...}
Begin ==
    \E w \in Workers :
        /\ calls[w].pc = "start"
        /\ reports' = [reports EXCEPT ![new_results(w)] = empty_results]
        /\ calls' = [calls EXCEPT ![w].validation_results = new_results(w),
                                  ![w].pc = "schema"]
        /\ UNCHANGED <<df, schema, result, previous, pipeline>>

\* schema_valid, schema_issues = validate_schema(df, self.schema), and the entry
SchemaChecked(w, outcome) ==
    IF outcome.raised # ""
    THEN /\ calls' = [calls EXCEPT ![w].raised = outcome.raised, ![w].pc = "done"]
         /\ UNCHANGED reports
    ELSE /\ calls' = [calls EXCEPT ![w].schema_valid = outcome.value.is_valid,
                                   ![w].pc = "missing"]
         /\ reports' = [reports EXCEPT ![calls[w].validation_results].schema_validation =
                           [valid |-> outcome.value.is_valid,
                            issues |-> outcome.value.issues]]

SchemaStep ==
    \E w \in Workers :
        /\ calls[w].pc = "schema"
        /\ SchemaChecked(w, validate_schema(calls[w].df, schema))
        /\ UNCHANGED <<df, schema, result, previous, pipeline>>

\* missing_check = check_missing_values(df), and the entry
MissingStep ==
    \E w \in Workers :
        /\ calls[w].pc = "missing"
        /\ calls' = [calls EXCEPT ![w].missing_check = check_missing_values(calls[w].df),
                                  ![w].pc = "duplicates"]
        /\ reports' = [reports EXCEPT ![calls[w].validation_results].missing_values =
                          calls'[w].missing_check]
        /\ UNCHANGED <<df, schema, result, previous, pipeline>>

\* duplicate_check = check_duplicates(df), and the entry
DuplicatesStep ==
    \E w \in Workers :
        /\ calls[w].pc = "duplicates"
        /\ calls' = [calls EXCEPT ![w].duplicate_check = check_duplicates(calls[w].df),
                                  ![w].pc = "outliers"]
        /\ reports' = [reports EXCEPT ![calls[w].validation_results].duplicates =
                          calls'[w].duplicate_check]
        /\ UNCHANGED <<df, schema, result, previous, pipeline>>

\* outlier_check = check_outliers(df), and the entry
OutliersChecked(w, outcome) ==
    IF outcome.raised # ""
    THEN /\ calls' = [calls EXCEPT ![w].raised = outcome.raised, ![w].pc = "done"]
         /\ UNCHANGED reports
    ELSE /\ calls' = [calls EXCEPT ![w].outlier_check = outcome.value,
                                   ![w].pc = "verdict"]
         /\ reports' = [reports EXCEPT ![calls[w].validation_results].outliers =
                           outcome.value]

OutliersStep ==
    \E w \in Workers :
        /\ calls[w].pc = "outliers"
        /\ OutliersChecked(w, check_outliers(calls[w].df))
        /\ UNCHANGED <<df, schema, result, previous, pipeline>>

\* is_valid = ...; return is_valid, validation_results
VerdictStep ==
    \E w \in Workers :
        /\ calls[w].pc = "verdict"
        /\ calls' = [calls EXCEPT
                        ![w].is_valid = overall_is_valid(calls[w].schema_valid,
                                                         calls[w].missing_check,
                                                         calls[w].duplicate_check,
                                                         calls[w].outlier_check),
                        ![w].pc = "done"]
        /\ UNCHANGED <<df, schema, result, previous, pipeline, reports>>

NextConcurrent ==
    \/ Begin
    \/ SchemaStep
    \/ MissingStep
    \/ DuplicatesStep
    \/ OutliersStep
    \/ VerdictStep

SpecConcurrent == InitConcurrent /\ [][NextConcurrent]_vars

(***************************************************************************)
(* run_ingestion_pipeline, one call: df is the table the source holds,     *)
(* schema the DataIngestion object's schema, pipeline the call's frame:    *)
(* its arguments, its position, the steps it has taken, the table it       *)
(* loaded, the table it preprocessed and the table it wrote.               *)
(***************************************************************************)
\* the loaders return tables with at least one row
PipelineTables ==
    {table \in UNION {TablesOf(layout, MaxPipelineRows) :
                         layout \in { <<Layout("customer_id", "text")>>,
                                      <<Layout("age", "num")>>,
                                      <<Layout("age", "text")>>,
                                      <<Layout("monthly_charges", "num")>>,
                                      <<Layout("customer_id", "text"),
                                        Layout("age", "text")>> }} :
        len(table) > 0}

\* str.lower on the source types
str_lower(s) == IF s = "CSV" THEN "csv" ELSE s

\* the arguments and locals of a call; the source can be read, does not
\* exist, or cannot be read
Call(source_type, has_query, validate, source) ==
    [pc |-> "start", source_type |-> source_type, has_query |-> has_query,
     validate |-> validate, source |-> source, raised |-> "", steps |-> <<>>,
     df |-> NoTable, is_valid |-> FALSE, processed_df |-> NoTable,
     saved |-> FALSE, written |-> NoTable]

InitPipeline ==
    /\ df \in PipelineTables
    /\ schema \in WorkerSchemas
    /\ pipeline \in {Call(source_type, has_query, validate, source) :
                        source_type \in {"csv", "CSV", "database", "parquet"},
                        has_query \in BOOLEAN,
                        validate \in BOOLEAN,
                        source \in {"readable", "missing", "unreadable"}}
    /\ result = Outcome("none", Returned(<<>>))
    /\ previous = [calls |-> 0, raised |-> "", value |-> <<>>]
    /\ calls = <<>>
    /\ reports = <<>>

Stopped(error) == [pipeline EXCEPT !.raised = error, !.pc = "done"]

\* if source_type.lower() == "csv" ... elif ... "database" ... else
Dispatch ==
    /\ pipeline.pc = "start"
    /\ pipeline' =
          IF str_lower(pipeline.source_type) = "csv"
          THEN [pipeline EXCEPT !.pc = "load_csv"]
          ELSE IF str_lower(pipeline.source_type) = "database"
          THEN IF ~pipeline.has_query
               THEN Stopped("ValueError")
               ELSE [pipeline EXCEPT !.pc = "load_from_database"]
          ELSE Stopped("ValueError")
    /\ UNCHANGED <<df, schema, result, previous, calls, reports>>

\* the table is read; validate_data follows when validate is set
Loaded ==
    [pipeline EXCEPT !.df = df, !.steps = Append(@, "load"),
                     !.pc = IF pipeline.validate THEN "validate" ELSE "preprocess"]

\* load_csv up to the read
LoadCsv ==
    /\ pipeline.pc = "load_csv"
    /\ pipeline' =
          IF pipeline.source = "missing" THEN Stopped("FileNotFoundError")
          ELSE IF pipeline.source = "unreadable" THEN Stopped("ParserError")
          ELSE Loaded
    /\ UNCHANGED <<df, schema, result, previous, calls, reports>>

\* load_from_database up to the read
LoadFromDatabase ==
    /\ pipeline.pc = "load_from_database"
    /\ pipeline' =
          IF pipeline.source = "readable" THEN Loaded ELSE Stopped("DatabaseError")
    /\ UNCHANGED <<df, schema, result, previous, calls, reports>>

\* self.validate_data(df) inside the loader's try: the return value is
\* dropped, an exception is logged and raised again
Validated(outcome) ==
    IF outcome.raised # ""
    THEN [pipeline EXCEPT !.steps = Append(@, "validate"),
                          !.raised = outcome.raised, !.pc = "done"]
    ELSE [pipeline EXCEPT !.steps = Append(@, "validate"),
                          !.is_valid = outcome.value.is_valid,
                          !.pc = "preprocess"]

Validate ==
    /\ pipeline.pc = "validate"
    /\ pipeline' = Validated(validate_data(pipeline.df, schema))
    /\ UNCHANGED <<df, schema, result, previous, calls, reports>>

\* processed_df = self.preprocess_data(df)
PipelinePreprocessed(outcome) ==
    IF outcome.raised # ""
    THEN [pipeline EXCEPT !.steps = Append(@, "preprocess"),
                          !.raised = outcome.raised, !.pc = "done"]
    ELSE [pipeline EXCEPT !.steps = Append(@, "preprocess"),
                          !.processed_df = outcome.value,
                          !.pc = "save"]

Preprocess ==
    /\ pipeline.pc = "preprocess"
    /\ pipeline' = PipelinePreprocessed(preprocess_data(pipeline.df, TRUE, TRUE, FALSE))
    /\ UNCHANGED <<df, schema, result, previous, calls, reports>>

\* output_path = self.save_processed_data(processed_df, output_file); return
Save ==
    /\ pipeline.pc = "save"
    /\ pipeline' = [pipeline EXCEPT !.steps = Append(@, "save"),
                                    !.saved = TRUE,
                                    !.written = pipeline.processed_df,
                                    !.pc = "done"]
    /\ UNCHANGED <<df, schema, result, previous, calls, reports>>

NextPipeline ==
    \/ Dispatch
    \/ LoadCsv
    \/ LoadFromDatabase
    \/ Validate
    \/ Preprocess
    \/ Save

SpecPipeline == InitPipeline /\ [][NextPipeline]_vars

(***************************************************************************)
(* Properties.                                                             *)
(* A property about the value a call returns is stated on the calls that   *)
(* return; whether a call returns at all is the subject of C5 and C6.      *)
(***************************************************************************)
ReturnedFrom(op) == result.op = op /\ result.raised = ""

CountIssues(issues, type) ==
    Cardinality({k \in 1..Len(issues) : issues[k].type = type})

\* C1: validate_data returns is_valid = (schema verdict) and (no critical
\* missing values) and (no duplicates); the outlier statistics never enter
\* the verdict, so a table whose only finding is outliers is valid.
C1_ValidateDataVerdict ==
    ReturnedFrom("validate_data") =>
        LET report == result.value.validation_results
        IN  /\ report.schema_validation.valid = validate_schema(df, schema).value.is_valid
            /\ report.missing_values = check_missing_values(df)
            /\ report.duplicates = check_duplicates(df)
            /\ result.value.is_valid =
                  (/\ report.schema_validation.valid
                   /\ ~report.missing_values.has_critical_missing
                   /\ ~report.duplicates.has_duplicates)

\* a table whose only finding is outliers, reported valid
C1_Witness ==
    /\ ReturnedFrom("validate_data")
    /\ result.value.is_valid
    /\ result.value.validation_results.outliers.total_outliers > 0

\* C2: validate_schema returns is_valid = true iff no issue has a kind other
\* than missing_optional_column.
C2_OptionalMissingKeepsValid ==
    ReturnedFrom("validate_schema") =>
        (result.value.is_valid <=>
            \A k \in 1..Len(result.value.issues) :
                result.value.issues[k].type = "missing_optional_column")

\* C3: has_critical_missing is true iff some column's missing fraction
\* (null cells / rows) is strictly greater than 20%.
C3_CriticalAboveTwentyPercent ==
    ReturnedFrom("check_missing_values") =>
        (result.value.has_critical_missing <=>
            \E j \in 1..Len(df.columns) :
                5 * Cardinality({i \in 1..len(df) : isna(df.rows[i][j])}) > len(df))

\* the required schema columns that the table lacks
AbsentRequired(d, sch) ==
    {sch[k].name : k \in {x \in 1..Len(sch) :
                             sch[x].props.required /\ ~HasColumn(d, sch[x].name)}}

\* C4: when a required schema column is absent, validate_schema returns
\* is_valid = false and its issue list holds exactly one missing-required
\* issue, whose column list is exactly the absent required columns, each
\* named once, whatever other issues are present.
C4_RequiredOmissionBatched ==
    ReturnedFrom("validate_schema") /\ AbsentRequired(df, schema) # {} =>
        LET issues == result.value.issues
            batch == {k \in 1..Len(issues) : issues[k].type = "missing_required_columns"}
        IN  /\ ~result.value.is_valid
            /\ Cardinality(batch) = 1
            /\ \A k \in batch :
                  /\ {issues[k].columns[x] : x \in 1..Len(issues[k].columns)}
                        = AbsentRequired(df, schema)
                  /\ Len(issues[k].columns) = Cardinality(AbsentRequired(df, schema))

\* two required columns absent and another kind of issue present
C4_Witness ==
    /\ ReturnedFrom("validate_schema")
    /\ Cardinality(AbsentRequired(df, schema)) = 2
    /\ CountIssues(result.value.issues, "wrong_data_type") > 0

\* C5: validate_schema never aborts: every call returns normally.
C5_ValidateSchemaReturns ==
    result.op = "validate_schema" => result.raised = ""

\* C6: on a table with zero rows every analyzer returns normally and every
\* percentage it reports is 0; on a table with zero numeric columns the
\* outlier analyzer returns normally with an outlier percentage of 0.
C6_ZeroGuards ==
    /\ len(df) = 0 =>
          /\ result.op \in {"check_missing_values", "check_duplicates", "check_outliers",
                            "validate_data_quality"} => result.raised = ""
          /\ result.op = "check_missing_values" =>
                result.value.total_missing_percentage = Float(0)
          /\ result.op = "check_duplicates" =>
                result.value.duplicate_percentage = Float(0)
          /\ result.op = "check_outliers" =>
                result.value.outlier_percentage = Float(0)
          /\ result.op = "validate_data_quality" =>
                /\ result.value.missing_values.total_missing_percentage = Float(0)
                /\ result.value.duplicates.duplicate_percentage = Float(0)
                /\ result.value.outliers.outlier_percentage = Float(0)
    /\ numeric_columns(df) = {} =>
          /\ result.op = "check_outliers" =>
                result.raised = "" /\ result.value.outlier_percentage = Float(0)
          /\ result.op = "validate_data_quality" =>
                result.raised = "" /\ result.value.outliers.outlier_percentage = Float(0)

\* C7: the duplicate positions are exactly the 0-based positions i with an
\* earlier equal row, in ascending order; the count is the list's length,
\* the percentage is count / rows and has_duplicates is count > 0; rows
\* [A, B, A, A, C] give positions [2, 3], count 2, percentage 0.4.
C7_DuplicatesOrderStable ==
    /\ ReturnedFrom("check_duplicates") =>
          LET r == result.value
              positions == r.duplicate_indexes
          IN  /\ \A p \in 0..(len(df) - 1) :
                    (\E x \in 1..Len(positions) : positions[x] = p)
                        <=> (\E q \in 0..(p - 1) : df.rows[q + 1] = df.rows[p + 1])
              /\ \A x \in 1..Len(positions) : positions[x] \in 0..(len(df) - 1)
              /\ \A x, y \in 1..Len(positions) : x < y => positions[x] < positions[y]
              /\ r.duplicate_count = Len(positions)
              /\ r.has_duplicates <=> r.duplicate_count > 0
              /\ len(df) > 0 =>
                    /\ ~IsNaN(r.duplicate_percentage)
                    /\ r.duplicate_percentage[1] * len(df)
                          = r.duplicate_count * r.duplicate_percentage[2]
    /\ ReturnedFrom("check_duplicates") /\ df = DuplicateExample =>
          /\ result.value.duplicate_indexes = <<2, 3>>
          /\ result.value.duplicate_count = 2
          /\ result.value.duplicate_percentage = Rat(4, 10)

\* the duplicate detector has run on rows [A, B, A, A, C]
C7_Witness ==
    /\ ReturnedFrom("check_duplicates")
    /\ df = DuplicateExample
    /\ result.value.has_duplicates

\* the smaller of two numbers
RMin(a, b) == IF RLt(a, b) THEN a ELSE b

\* C8: quality_score = 100 - min(30, m*100) - (if has_duplicates:
\* min(20, d*100)) - (if total_outliers > 0: min(20, o*10)) for the
\* fractions m, d, o reported with it; 10% missing alone scores 90, with a 5%
\* duplicate rate 85, and a 50% outlier percentage alone scores 95.
C8_ScoreFormula ==
    /\ ReturnedFrom("validate_data_quality") /\ len(df) > 0 =>
          LET v == result.value
              m == v.missing_values.total_missing_percentage
              d == v.duplicates.duplicate_percentage
              o == v.outliers.outlier_percentage
              pm == RMin(Float(30), RMul(m, Float(100)))
              pd == IF v.duplicates.has_duplicates
                    THEN RMin(Float(20), RMul(d, Float(100))) ELSE Float(0)
              po == IF v.outliers.total_outliers > 0
                    THEN RMin(Float(20), RMul(o, Float(10))) ELSE Float(0)
          IN  /\ ~IsNaN(m) /\ ~IsNaN(d) /\ ~IsNaN(o)
              /\ v.quality_score = RSub(RSub(RSub(Float(100), pm), pd), po)
    /\ ReturnedFrom("validate_data_quality") /\ df = MissingExample =>
          result.value.quality_score = Float(90)
    /\ ReturnedFrom("validate_data_quality") /\ df = MissingDuplicateExample =>
          result.value.quality_score = Float(85)
    /\ quality_score([total_missing_percentage |-> Rat(10, 100)],
                     [has_duplicates |-> FALSE, duplicate_percentage |-> Float(0)],
                     [total_outliers |-> 0, outlier_percentage |-> Float(0)]) = Float(90)
    /\ quality_score([total_missing_percentage |-> Rat(10, 100)],
                     [has_duplicates |-> TRUE, duplicate_percentage |-> Rat(5, 100)],
                     [total_outliers |-> 0, outlier_percentage |-> Float(0)]) = Float(85)
    /\ quality_score([total_missing_percentage |-> Float(0)],
                     [has_duplicates |-> FALSE, duplicate_percentage |-> Float(0)],
                     [total_outliers |-> 1, outlier_percentage |-> Rat(50, 100)]) = Float(95)

\* a score with all three penalties applied
C8_Witness ==
    /\ ReturnedFrom("validate_data_quality")
    /\ result.value.missing_values.total_missing > 0
    /\ result.value.duplicates.has_duplicates
    /\ result.value.outliers.total_outliers > 0

\* C9: the quality_score returned by validate_data_quality lies in [0, 100].
C9_ScoreRange ==
    ReturnedFrom("validate_data_quality") =>
        /\ ~IsNaN(result.value.quality_score)
        /\ ~RLt(result.value.quality_score, Float(0))
        /\ ~RGt(result.value.quality_score, Float(100))

\* a score lowered by capped penalties: every cell null, every later row a duplicate
C9_Witness ==
    /\ ReturnedFrom("validate_data_quality")
    /\ len(df) > 1
    /\ result.value.missing_values.total_missing = result.value.missing_values.total_cells
    /\ RLt(result.value.quality_score, Float(100))

\* four times the quantile at quarter * 25% of an ascending sequence s, by
\* linear interpolation between the two neighbouring order statistics
Quartile4(s, quarter) ==
    LET h == (Len(s) - 1) * quarter
        k == h \div 4
        r == h % 4
    IN  IF r = 0 THEN 4 * s[k + 1]
        ELSE 4 * s[k + 1] + r * (s[k + 2] - s[k + 1])

\* the whole numbers of a column of a loaded table, in ascending order
Ascending(d, j) ==
    LET s == Sorted(NonNull(Col(d, j))) IN [i \in 1..Len(s) |-> s[i][1]]

\* the values of numeric column j that lie strictly outside
\* [Q1 - 1.5 (Q3 - Q1), Q3 + 1.5 (Q3 - Q1)], as row numbers
StrictOutliers(d, j) ==
    LET s == Ascending(d, j)
        q1 == Quartile4(s, 1)
        q3 == Quartile4(s, 3)
    IN  {i \in 1..len(d) :
            /\ ~isna(d.rows[i][j])
            /\ \/ 8 * d.rows[i][j].num < 5 * q1 - 3 * q3
               \/ 8 * d.rows[i][j].num > 5 * q3 - 3 * q1}

\* C10: per numeric column, Q1 and Q3 are interpolated linearly,
\* lower_bound = Q1 - 1.5 IQR, upper_bound = Q3 + 1.5 IQR, and a value is
\* counted as an outlier iff it is strictly outside the bounds; the column
\* [1, 2, 3, 4, 5, 100] has Q1 = 2.25, Q3 = 4.75, bounds [-1.5, 8.5] and 100
\* as its sole outlier.
C10_OutlierRule ==
    /\ ReturnedFrom("check_outliers") =>
          \A j \in numeric_columns(df) :
              LET column == df.columns[j]
                  s == Ascending(df, j)
                  reported == column \in DOMAIN result.value.outlier_columns
                  entry == result.value.outlier_columns[column]
              IN  /\ reported <=> StrictOutliers(df, j) # {}
                  /\ reported =>
                        /\ entry.count = Cardinality(StrictOutliers(df, j))
                        /\ entry.lower_bound
                              = Rat(5 * Quartile4(s, 1) - 3 * Quartile4(s, 3), 8)
                        /\ entry.upper_bound
                              = Rat(5 * Quartile4(s, 3) - 3 * Quartile4(s, 1), 8)
    /\ ReturnedFrom("check_outliers") /\ df = OutlierExample =>
          LET entry == result.value.outlier_columns["monthly_charges"]
          IN  /\ quantile(Col(df, 1), Rat(1, 4)) = Rat(225, 100)
              /\ quantile(Col(df, 1), Rat(3, 4)) = Rat(475, 100)
              /\ entry.lower_bound = Rat(-15, 10)
              /\ entry.upper_bound = Rat(85, 10)
              /\ entry.count = 1
              /\ outlier_rows(df, 1) = {6}

\* the outlier detector has run on the column [1, 2, 3, 4, 5, 100]
C10_Witness ==
    /\ ReturnedFrom("check_outliers")
    /\ df = OutlierExample
    /\ result.value.total_outliers = 1

\* a value equal to its column's upper bound, not counted as an outlier
C10_BoundaryReached ==
    /\ ReturnedFrom("check_outliers")
    /\ result.value.total_outliers = 0
    /\ \E i \in 1..len(df) :
          ~isna(df.rows[i][1]) /\ Float(df.rows[i][1].num) = upper_bound(Col(df, 1))
    /\ \E i \in 1..len(df) :
          ~isna(df.rows[i][1]) /\ RLt(Float(df.rows[i][1].num), upper_bound(Col(df, 1)))

\* the sum of the counts of the entries of a per-column map
RECURSIVE SumCounts(_, _)
SumCounts(map, names) ==
    IF names = {} THEN 0
    ELSE LET c == CHOOSE x \in names : TRUE
         IN  map[c].count + SumCounts(map, names \ {c})

\* C11: the per-column map of check_outliers holds exactly the numeric
\* columns with at least one outlier, total_outliers is the sum of the
\* per-column counts, and outlier_percentage is total_outliers / (rows *
\* numeric columns), or 0 when the table has no numeric column.
C11_OutlierAggregate ==
    ReturnedFrom("check_outliers") =>
        LET v == result.value
            numeric == numeric_columns(df)
        IN  /\ DOMAIN v.outlier_columns
                  = {df.columns[j] : j \in {x \in numeric : StrictOutliers(df, x) # {}}}
            /\ v.total_outliers = SumCounts(v.outlier_columns, DOMAIN v.outlier_columns)
            /\ numeric = {} => v.outlier_percentage = Float(0)
            /\ numeric # {} =>
                  /\ ~IsNaN(v.outlier_percentage)
                  /\ v.outlier_percentage[1] * (len(df) * Cardinality(numeric))
                        = v.total_outliers * v.outlier_percentage[2]

\* two numeric columns, only one of them with an outlier and so reported
C11_Witness ==
    /\ ReturnedFrom("check_outliers")
    /\ Cardinality(numeric_columns(df)) = 2
    /\ Cardinality(DOMAIN result.value.outlier_columns) = 1
    /\ result.value.total_outliers = 1

\* two numeric columns both reported, their counts summed
C11_BothReported ==
    /\ ReturnedFrom("check_outliers")
    /\ Cardinality(DOMAIN result.value.outlier_columns) = 2
    /\ result.value.total_outliers = 3
    /\ result.value.outlier_percentage = Rat(3, 20)

\* the null cells of column j, as row numbers
NullRows(d, j) == {i \in 1..len(d) : isna(d.rows[i][j])}

\* C12: in the result of check_missing_values total_missing is the number of
\* null cells, total_cells is rows * columns, total_missing_percentage is
\* total_missing / total_cells as a fraction in 0..1, and the per-column map
\* holds exactly the columns with a null cell, each with its own null count;
\* 4 rows, 2 columns and one null give 1, 8 and 0.125.
C12_MissingTotals ==
    /\ ReturnedFrom("check_missing_values") =>
          LET v == result.value
              p == v.total_missing_percentage
              columns == 1..Len(df.columns)
          IN  /\ v.total_missing
                    = Cardinality({cell \in (1..len(df)) \X columns :
                                      isna(df.rows[cell[1]][cell[2]])})
              /\ v.total_cells = len(df) * Len(df.columns)
              /\ v.total_cells > 0 =>
                    /\ ~IsNaN(p)
                    /\ p[1] * v.total_cells = v.total_missing * p[2]
                    /\ ~RLt(p, Float(0)) /\ ~RGt(p, Float(1))
              /\ DOMAIN v.missing_columns
                    = {df.columns[j] : j \in {x \in columns : NullRows(df, x) # {}}}
              /\ \A j \in columns :
                    NullRows(df, j) # {} =>
                        v.missing_columns[df.columns[j]].count
                            = Cardinality(NullRows(df, j))
    /\ ReturnedFrom("check_missing_values") /\ df = MissingFractionExample =>
          /\ result.value.total_missing = 1
          /\ result.value.total_cells = 8
          /\ result.value.total_missing_percentage = Rat(125, 1000)
          /\ DOMAIN result.value.missing_columns = {"monthly_charges"}

\* 4 rows, 2 columns and one null cell analyzed
C12_Witness ==
    /\ ReturnedFrom("check_missing_values")
    /\ df = MissingFractionExample
    /\ result.value.total_missing = 1

\* two columns with different null counts, both reported
C12_TwoColumnsReported ==
    /\ ReturnedFrom("check_missing_values")
    /\ Cardinality(DOMAIN result.value.missing_columns) = 2
    /\ \E a, b \in DOMAIN result.value.missing_columns :
          result.value.missing_columns[a].count < result.value.missing_columns[b].count

\* the issues of one type that name one column, as positions in the list
IssuesOf(issues, type, column) ==
    {k \in 1..Len(issues) : issues[k].type = type /\ issues[k].column = column}

\* the non-null values of a numeric column
Values(d, column) ==
    {d.rows[i][ColIndex(d, column)].num :
        i \in {x \in 1..len(d) : ~isna(d.rows[x][ColIndex(d, column)])}}

\* C13: for each numeric-kind schema column present in the table, one
\* out_of_range issue with constraint ">= min" is emitted iff min is set and
\* some value is below it, and one with "<= max" iff max is set and some value
\* is above it: at most one issue per bound however many rows violate it; no
\* out_of_range issue names a column of another kind. An age column holding
\* 15 against min 18, max 120 yields exactly one issue, ">= 18".
C13_RangeCheck ==
    ReturnedFrom("validate_schema") =>
        \A k \in 1..Len(schema) :
            LET column == schema[k].name
                props == schema[k].props
                issues == result.value.issues
                ranged == IssuesOf(issues, "out_of_range", column)
                below == {x \in ranged : issues[x].constraint[1] = ">="}
                above == {x \in ranged : issues[x].constraint[1] = "<="}
            IN  IF HasColumn(df, column) /\ props.type = "numeric"
                THEN /\ ranged = below \cup above
                     /\ Cardinality(below) =
                           IF props.min # <<>>
                              /\ \E v \in Values(df, column) : v < props.min[1]
                           THEN 1 ELSE 0
                     /\ Cardinality(above) =
                           IF props.max # <<>>
                              /\ \E v \in Values(df, column) : v > props.max[1]
                           THEN 1 ELSE 0
                     /\ \A x \in below : issues[x].constraint = <<">=", props.min[1]>>
                     /\ \A x \in above : issues[x].constraint = <<"<=", props.max[1]>>
                     /\ (/\ props.min = <<18>> /\ props.max = <<120>>
                         /\ 15 \in Values(df, column)
                         /\ \A v \in Values(df, column) : v <= 120)
                        => /\ Cardinality(ranged) = 1
                           /\ \A x \in ranged : issues[x].constraint = <<">=", 18>>
                ELSE ranged = {}

\* two rows of age 15 against min 18, max 120: one issue
C13_Witness ==
    /\ ReturnedFrom("validate_schema")
    /\ HasColumn(df, "age")
    /\ len(df) = 2
    /\ Values(df, "age") = {15}
    /\ Cardinality(IssuesOf(result.value.issues, "out_of_range", "age")) = 1

\* both bounds violated by one column: two issues
C13_BothBounds ==
    /\ ReturnedFrom("validate_schema")
    /\ HasColumn(df, "age")
    /\ Cardinality(IssuesOf(result.value.issues, "out_of_range", "age")) = 2

\* bounds declared on an item of another kind, the values outside them: no issue
C13_OtherKind ==
    /\ ReturnedFrom("validate_schema")
    /\ HasColumn(df, "age")
    /\ schema[1].name = "age" /\ schema[1].props.type = ""
    /\ 15 \in Values(df, "age")
    /\ IssuesOf(result.value.issues, "out_of_range", "age") = {}

\* the distinct non-null texts of a column
Texts(d, column) ==
    {d.rows[i][ColIndex(d, column)].str :
        i \in {x \in 1..len(d) : ~isna(d.rows[x][ColIndex(d, column)])}}

\* C14: for each present schema column of kind string or category that
\* declares allowed_values, exactly one invalid_categorical_values issue is
\* emitted iff some distinct non-null value is not allowed, and it lists
\* exactly the offending distinct values; a null cell is never an invalid
\* value, and a column without allowed_values gets no such issue.
C14_CategoricalCheck ==
    ReturnedFrom("validate_schema") =>
        \A k \in 1..Len(schema) :
            LET column == schema[k].name
                props == schema[k].props
                issues == result.value.issues
                reported == IssuesOf(issues, "invalid_categorical_values", column)
                offending == Texts(df, column) \ props.allowed_values
            IN  HasColumn(df, column) =>
                  /\ props.type \in {"string", "category"} /\ props.has_allowed_values =>
                        /\ Cardinality(reported) = IF offending # {} THEN 1 ELSE 0
                        /\ \A x \in reported :
                              /\ \A v \in issues[x].invalid_values : ~isna(v)
                              /\ {v.str : v \in issues[x].invalid_values} = offending
                  /\ ~props.has_allowed_values => reported = {}

\* two offending values, one repeated, and a null cell: one issue listing the two
C14_Witness ==
    /\ ReturnedFrom("validate_schema")
    /\ df = CategoricalExample
    /\ \E x \in IssuesOf(result.value.issues, "invalid_categorical_values", "gender") :
          Cardinality(result.value.issues[x].invalid_values) = 2

\* a column of allowed values and nulls only: no issue
C14_NullsOnly ==
    /\ ReturnedFrom("validate_schema")
    /\ HasColumn(df, "gender")
    /\ schema[1].name = "gender" /\ schema[1].props.type = "string"
    /\ \E i \in 1..len(df) : isna(df.rows[i][ColIndex(df, "gender")])
    /\ IssuesOf(result.value.issues, "invalid_categorical_values", "gender") = {}

\* some non-null value occurs in more than one row of the column
RepeatedValue(d, column) ==
    \E i, k \in 1..len(d) :
        /\ i # k
        /\ ~isna(d.rows[i][ColIndex(d, column)])
        /\ d.rows[i][ColIndex(d, column)] = d.rows[k][ColIndex(d, column)]

\* C15: for each present schema column with unique set, exactly one
\* uniqueness_violation issue is emitted iff some non-null value occurs in
\* more than one row; a column whose only repeated cells are nulls yields none.
C15_UniquenessCheck ==
    ReturnedFrom("validate_schema") =>
        \A k \in 1..Len(schema) :
            HasColumn(df, schema[k].name) /\ schema[k].props.unique =>
                Cardinality(IssuesOf(result.value.issues, "uniqueness_violation",
                                     schema[k].name))
                    = IF RepeatedValue(df, schema[k].name) THEN 1 ELSE 0

\* C16: for each present schema column that declares a kind, one
\* wrong_data_type issue (with the expected kind and the actual storage type)
\* is emitted iff the column's storage type is not among those EXPECTED_TYPES
\* of schema.py declares compatible with the kind; a category-kind column
\* stored as text (object) is type-conformant.
C16_TypeCheckExpectedTypes ==
    ReturnedFrom("validate_schema") =>
        \A k \in 1..Len(schema) :
            LET column == schema[k].name
                kind == schema[k].props.type
                issues == result.value.issues
                reported == IssuesOf(issues, "wrong_data_type", column)
                dtype == df.dtypes[ColIndex(df, column)]
            IN  HasColumn(df, column) /\ kind # "" =>
                  /\ Cardinality(reported) =
                        IF dtype \notin EXPECTED_TYPES(kind) THEN 1 ELSE 0
                  /\ \A x \in reported :
                        issues[x].expected = kind /\ issues[x].actual = dtype

\* the issue types of the checks made on a column's cells
CellCheckTypes ==
    {"wrong_data_type", "out_of_range", "invalid_categorical_values",
     "uniqueness_violation"}

\* the schema columns that the table lacks and that are not required
AbsentOptional(d, sch) ==
    {sch[k].name : k \in {x \in 1..Len(sch) :
                             ~sch[x].props.required /\ ~HasColumn(d, sch[x].name)}}

\* C17: for every schema column absent from the table and not required,
\* validate_schema emits exactly one missing_optional_column issue naming it,
\* and no type, range, categorical or uniqueness issue names an absent column,
\* required or optional.
C17_AbsentColumns ==
    ReturnedFrom("validate_schema") =>
        \A k \in 1..Len(schema) :
            ~HasColumn(df, schema[k].name) =>
                /\ ~schema[k].props.required =>
                      Cardinality(IssuesOf(result.value.issues, "missing_optional_column",
                                           schema[k].name)) = 1
                /\ \A type \in CellCheckTypes :
                      IssuesOf(result.value.issues, type, schema[k].name) = {}

\* two optional columns absent, each reported once
C17_Witness ==
    /\ ReturnedFrom("validate_schema")
    /\ Cardinality(AbsentOptional(df, schema)) = 2
    /\ CountIssues(result.value.issues, "missing_optional_column") = 2

\* an optional and a required column absent, a present column with its own issue
C17_MixedAbsent ==
    /\ ReturnedFrom("validate_schema")
    /\ AbsentOptional(df, schema) # {}
    /\ AbsentRequired(df, schema) # {}
    /\ CountIssues(result.value.issues, "out_of_range") > 0

\* the column names of a schema
SchemaNames(sch) == {sch[k].name : k \in 1..Len(sch)}

\* names a further column may have
ColumnNames == {"customer_id", "age", "gender", "monthly_charges", "notes"}

\* contents of a further column of n cells: nulls, one number repeated,
\* distinct numbers out of every range, text
ExtraContents(n) ==
    { [dtype |-> "float64", cells |-> [i \in 1..n |-> Null]],
      [dtype |-> "int64", cells |-> [i \in 1..n |-> Num(500)]],
      [dtype |-> "int64", cells |-> [i \in 1..n |-> Num(-i)]],
      [dtype |-> "object", cells |-> [i \in 1..n |-> Str("zzz")]] }

\* the table d with one more column, in front of the others or after them
Extended(d, name, content, front) ==
    IF front
    THEN [columns |-> <<name>> \o d.columns,
          dtypes |-> <<content.dtype>> \o d.dtypes,
          rows |-> [i \in 1..len(d) |-> <<content.cells[i]>> \o d.rows[i]]]
    ELSE [columns |-> Append(d.columns, name),
          dtypes |-> Append(d.dtypes, content.dtype),
          rows |-> [i \in 1..len(d) |-> Append(d.rows[i], content.cells[i])]]

\* the tables that extend d by one column that neither d nor the schema names
Extensions(d, sch) ==
    {Extended(d, name, content, front) :
        name \in {n \in ColumnNames \ SchemaNames(sch) : ~HasColumn(d, n)},
        content \in ExtraContents(len(d)),
        front \in BOOLEAN}

\* C18: the schema drives the iteration: validate_schema returns the same
\* verdict and the same issue list on a table and on that table extended
\* with a column the schema does not name, whatever its type and content,
\* and no issue names a column that is not in the schema.
C18_ExtraColumnsIgnored ==
    ReturnedFrom("validate_schema") =>
        /\ \A extended \in Extensions(df, schema) :
              validate_schema(extended, schema) = Returned(result.value)
        /\ \A k \in 1..Len(result.value.issues) :
              LET issue == result.value.issues[k]
              IN  /\ issue.column \in SchemaNames(schema) \cup {""}
                  /\ \A x \in 1..Len(issue.columns) :
                        issue.columns[x] \in SchemaNames(schema)

\* a table with a column outside the schema and issues on its schema columns
C18_Witness ==
    /\ ReturnedFrom("validate_schema")
    /\ \E j \in 1..Len(df.columns) : df.columns[j] \notin SchemaNames(schema)
    /\ \E j \in 1..Len(df.columns) : df.columns[j] \in SchemaNames(schema)
    /\ Len(result.value.issues) > 1
    /\ Extensions(df, schema) # {}

\* C19: no operation mutates its input: through any sequence of calls to
\* validate_schema, the analyzers, validate_data_quality, validate_data and
\* preprocess_data (with any flags) the caller's table and the schema stay
\* cell for cell what they were; preprocess_data writes to a new table only.
C19_InputsNeverMutated == [][df' = df /\ schema' = schema]_vars

\* preprocess_data has filled null cells by column assignment, without
\* duplicate removal before it
C19_Witness ==
    /\ ReturnedFrom("preprocess_data")
    /\ ~result.value.drop_duplicates
    /\ result.value.handle_missing
    /\ result.value.table # df
    /\ \E i \in 1..len(df) : \E j \in 1..Len(df.columns) : isna(df.rows[i][j])

\* C20: for every table and flag combination preprocess_data returns a table
\* with exactly the input's columns and at most its rows; with drop_duplicates
\* false the row count is the input's, with drop_duplicates true it is the
\* input's minus the duplicate count that check_duplicates reports.
C20_PreprocessShape ==
    ReturnedFrom("preprocess_data") =>
        LET out == result.value.table
        IN  /\ out.columns = df.columns
            /\ \A i \in 1..len(out) : Len(out.rows[i]) = Len(df.columns)
            /\ len(out) <= len(df)
            /\ ~result.value.drop_duplicates => len(out) = len(df)
            /\ result.value.drop_duplicates =>
                  len(out) = len(df) - check_duplicates(df).duplicate_count

\* duplicate rows removed, a group of three among them
C20_Witness ==
    /\ ReturnedFrom("preprocess_data")
    /\ result.value.drop_duplicates
    /\ check_duplicates(df).duplicate_count = 2
    /\ len(result.value.table) = len(df) - 2

\* duplicates left in place with drop_duplicates false, the other steps on
C20_NoDropKeepsRows ==
    /\ ReturnedFrom("preprocess_data")
    /\ ~result.value.drop_duplicates
    /\ result.value.handle_missing /\ result.value.handle_outliers
    /\ check_duplicates(df).has_duplicates
    /\ result.value.table # df

\* no row of the table equals an earlier one and no cell is null
Clean(d) ==
    /\ \A i, k \in 1..len(d) : i # k => d.rows[i] # d.rows[k]
    /\ \A i \in 1..len(d) : \A j \in 1..Len(d.columns) : ~isna(d.rows[i][j])

\* C21: for every table without duplicate rows and without null cells,
\* preprocess_data with outlier handling disabled (the other two flags at
\* any setting) returns a table equal to the input: the same rows in the
\* same order with the same values.
C21_PreprocessRoundTrip ==
    ReturnedFrom("preprocess_data") /\ ~result.value.handle_outliers /\ Clean(df) =>
        result.value.table = df

\* the column [1, 2, 3, 4, 5, 100], whose outlier clipping would change,
\* returned as it was with the other two steps enabled
C21_Witness ==
    /\ ReturnedFrom("preprocess_data")
    /\ df = OutlierExample
    /\ result.value.drop_duplicates /\ result.value.handle_missing
    /\ ~result.value.handle_outliers
    /\ result.value.table = df

\* the 0-based positions of a table's rows that are not in a position list
PositionsNotIn(d, positions) ==
    SelectSeq([i \in 1..len(d) |-> i - 1],
              LAMBDA p : \A x \in 1..Len(positions) : positions[x] # p)

\* C22: with drop_duplicates = true and the other two steps disabled, the
\* output of preprocess_data consists of exactly the input rows whose
\* positions are not in check_duplicates' duplicate position list, in their
\* original order: the first occurrence of every duplicate group is kept and
\* every later one removed.
C22_DropAgreesWithDetector ==
    /\ ReturnedFrom("preprocess_data")
    /\ result.value.drop_duplicates
    /\ ~result.value.handle_missing
    /\ ~result.value.handle_outliers
    => LET out == result.value.table
           kept == PositionsNotIn(df, check_duplicates(df).duplicate_indexes)
       IN  /\ out.columns = df.columns
           /\ out.rows = [x \in 1..Len(kept) |-> df.rows[kept[x] + 1]]
           /\ \A i \in 1..len(df) :
                 Cardinality({x \in 1..len(out) : out.rows[x] = df.rows[i]}) = 1
           /\ \A x \in 1..Len(kept) :
                 \A i \in 1..kept[x] : df.rows[i] # df.rows[kept[x] + 1]

\* rows [A, B, A, A, C] reduced to [A, B, C]
C22_Witness ==
    /\ ReturnedFrom("preprocess_data")
    /\ df = DuplicateExample
    /\ result.value.drop_duplicates
    /\ ~result.value.handle_missing
    /\ ~result.value.handle_outliers
    /\ result.value.table.rows = << <<Str("A")>>, <<Str("B")>>, <<Str("C")>> >>

\* the input as preprocess_data's filling loops find it: without the rows
\* that repeat an earlier row when duplicates were dropped
Deduplicated(d, dropped) ==
    LET first == SelectSeq([i \in 1..len(d) |-> i],
                           LAMBDA i : \A k \in 1..(i - 1) : d.rows[k] # d.rows[i])
    IN  IF dropped
        THEN [columns |-> d.columns,
              dtypes |-> d.dtypes,
              rows |-> [x \in 1..Len(first) |-> d.rows[first[x]]]]
        ELSE d

\* twice the median of the whole numbers s, given in ascending order
TwiceMedian(s) ==
    IF Len(s) % 2 = 1 THEN 2 * s[(Len(s) + 1) \div 2]
    ELSE s[Len(s) \div 2] + s[Len(s) \div 2 + 1]

\* the most frequent non-null cells of column j
MostFrequent(d, j) ==
    LET count(c) == Cardinality({i \in 1..len(d) : d.rows[i][j] = c})
    IN  {d.rows[i][j] : i \in {x \in 1..len(d) :
            /\ ~isna(d.rows[x][j])
            /\ \A y \in 1..len(d) :
                  ~isna(d.rows[y][j]) => count(d.rows[y][j]) <= count(d.rows[x][j])}}

\* C23: preprocess_data with handle_missing = true returns normally; every
\* null cell of a numeric column is replaced by the column's median and
\* every null cell of a text column by one of the column's most frequent
\* values, both taken after duplicate removal; non-null cells are unchanged
\* by the step; no null cell is left in a numeric or text column, also when
\* a column consists of null cells only.
C23_MissingHandling ==
    result.op = "preprocess_data" /\ result.value.handle_missing =>
        /\ result.raised = ""
        /\ LET out == result.value.table
               base == Deduplicated(df, result.value.drop_duplicates)
           IN  /\ len(out) = len(base)
               /\ \A i \in 1..len(out) : \A j \in 1..Len(out.columns) :
                     /\ ~isna(out.rows[i][j])
                     /\ ~result.value.handle_outliers =>
                           /\ ~isna(base.rows[i][j]) => out.rows[i][j] = base.rows[i][j]
                           /\ isna(base.rows[i][j]) /\ j \in numeric_columns(base) =>
                                 Value(out.rows[i][j])
                                     = Rat(TwiceMedian(Ascending(base, j)), 2)
                           /\ isna(base.rows[i][j]) /\ j \in cat_columns(base) =>
                                 out.rows[i][j] \in MostFrequent(base, j)

\* the table as the clipping loop of preprocess_data finds it
BeforeClipping(d, dropped, filled) ==
    IF filled THEN fill_categorical(fill_numeric(Deduplicated(d, dropped)))
    ELSE Deduplicated(d, dropped)

\* C24: outlier handling in preprocess_data runs only with handle_outliers =
\* true (with it false the step changes no value); when enabled, every value
\* of each numeric column of the output lies within that column's own
\* [lower_bound, upper_bound], the IQR bounds being computed on the table as
\* it is after duplicate removal and imputation: a value below lower_bound
\* becomes lower_bound, one above upper_bound becomes upper_bound, one inside
\* the range is unchanged.
C24_OutlierClipping ==
    ReturnedFrom("preprocess_data") =>
        LET out == result.value.table
            before == BeforeClipping(df, result.value.drop_duplicates,
                                     result.value.handle_missing)
        IN  /\ ~result.value.handle_outliers => out = before
            /\ result.value.handle_outliers =>
                  /\ out.columns = before.columns /\ len(out) = len(before)
                  /\ \A j \in 1..Len(before.columns) : \A i \in 1..len(before) :
                        LET lower == lower_bound(Col(before, j))
                            upper == upper_bound(Col(before, j))
                            was == before.rows[i][j]
                            is == out.rows[i][j]
                        IN  IF j \in numeric_columns(before) /\ ~isna(was)
                            THEN /\ ~isna(is)
                                 /\ ~RLt(Value(is), lower) /\ ~RGt(Value(is), upper)
                                 /\ RLt(Value(was), lower) => Value(is) = lower
                                 /\ RGt(Value(was), upper) => Value(is) = upper
                                 /\ ~RLt(Value(was), lower) /\ ~RGt(Value(was), upper)
                                       => is = was
                            ELSE is = was

\* [1, 1, 1, 2, 100, null, null] with every step enabled: 100 is capped to the
\* upper bound of the column [1, 2, 100, 2] that duplicate removal and
\* imputation leave, 63.625
C24_Witness ==
    /\ ReturnedFrom("preprocess_data")
    /\ df = AllFindingsExample
    /\ result.value.drop_duplicates
    /\ result.value.handle_missing
    /\ result.value.handle_outliers
    /\ \E i \in 1..len(result.value.table) :
          Value(result.value.table.rows[i][1]) = Rat(63625, 1000)

\* a value below the lower bound raised to it
C24_LowerCapped ==
    /\ ReturnedFrom("preprocess_data")
    /\ df = BothOutlierExample
    /\ result.value.handle_outliers
    /\ \A i \in 1..len(result.value.table) :
          result.value.table.rows[i][1] = Num(30)

Behind(pc) ==
    CASE pc = "start" -> {}
      [] pc = "schema" -> {}
      [] pc = "missing" -> {"schema"}
      [] pc = "duplicates" -> {"schema", "missing"}
      [] pc = "outliers" -> {"schema", "missing", "duplicates"}
      [] pc = "verdict" -> {"schema", "missing", "duplicates", "outliers"}
      [] pc = "done" -> {"schema", "missing", "duplicates", "outliers"}

\* C26: there is no shared mutable state between validation steps: whatever
\* steps of another call ran before, between or after them, the constraint
\* evaluator and the three analyzers give a call the results they give on
\* its table alone, and validate_data calls running concurrently on tables
\* of their own with one shared schema return, under every interleaving, the
\* (is_valid, report) that the call returns when run alone.
C26_ConcurrentCallsIndependent ==
    \A w \in Workers :
        LET call == calls[w]
            alone == validate_data(call.df, schema)
            report == reports[call.validation_results]
        IN  /\ call.pc \notin {"start", "done"} =>
                  /\ "schema" \in Behind(call.pc) =>
                        report.schema_validation
                           = [valid |-> validate_schema(call.df, schema).value.is_valid,
                              issues |-> validate_schema(call.df, schema).value.issues]
                  /\ "missing" \in Behind(call.pc) =>
                        report.missing_values = check_missing_values(call.df)
                  /\ "duplicates" \in Behind(call.pc) =>
                        report.duplicates = check_duplicates(call.df)
                  /\ "outliers" \in Behind(call.pc) =>
                        report.outliers = check_outliers(call.df).value
            /\ call.pc = "done" =>
                  /\ call.raised = alone.raised
                  /\ call.raised = "" =>
                        /\ call.is_valid = alone.value.is_valid
                        /\ report = alone.value.validation_results

\* both calls have returned, with different reports and different verdicts
C26_Witness ==
    /\ \A w \in Workers : calls[w].pc = "done" /\ calls[w].raised = ""
    /\ calls["w1"].is_valid /\ ~calls["w2"].is_valid
    /\ reports[calls["w1"].validation_results] # reports[calls["w2"].validation_results]

\* one call has returned while the other is between two of its checks
C26_Interleaved ==
    /\ calls["w1"].pc = "done" /\ calls["w1"].raised = ""
    /\ calls["w2"].pc = "duplicates"
    /\ calls["w1"].df # calls["w2"].df

\* C27: the output of preprocess_data with its default flags (drop_duplicates
\* and handle_missing set, handle_outliers not) contains no duplicate rows:
\* check_duplicates on the output reports has_duplicates = false.
C27_DefaultOutputHasNoDuplicates ==
    /\ ReturnedFrom("preprocess_data")
    /\ result.value.drop_duplicates /\ result.value.handle_missing
    /\ ~result.value.handle_outliers
    => ~check_duplicates(result.value.table).has_duplicates

\* the exceptions a loader raises when the source cannot be loaded
LoadErrors == {"FileNotFoundError", "ParserError", "DatabaseError"}

\* C28: in run_ingestion_pipeline the validation verdict does not gate the
\* pipeline: a finished call that loaded a table ran load, validate,
\* preprocess, save in this order and wrote the preprocessed table, whatever
\* the verdict was; a call that finished without saving raised a load error,
\* or raised ValueError before loading anything because the source type is
\* unsupported or a database source came without a query.
C28_VerdictDoesNotGate ==
    pipeline.pc = "done" =>
        /\ "load" \in {pipeline.steps[k] : k \in 1..Len(pipeline.steps)} =>
              /\ pipeline.steps = <<"load", "validate", "preprocess", "save">>
              /\ pipeline.saved
              /\ pipeline.written
                    = preprocess_data(pipeline.df, TRUE, TRUE, FALSE).value
        /\ ~pipeline.saved =>
              \/ pipeline.raised \in LoadErrors
              \/ /\ pipeline.raised = "ValueError"
                 /\ pipeline.steps = <<>>
                 /\ \/ str_lower(pipeline.source_type) \notin {"csv", "database"}
                    \/ str_lower(pipeline.source_type) = "database" /\ ~pipeline.has_query

\* C29: outlier capping reaches a fixed point in one step: the output of
\* preprocess_data with handle_outliers set has no outliers under the
\* detector's own rule (check_outliers on it reports total_outliers = 0),
\* and preprocess_data with the same flags returns that output unchanged.
C29_CappingFixedPoint ==
    ReturnedFrom("preprocess_data") /\ result.value.handle_outliers =>
        LET out == result.value.table
            again == preprocess_data(out, result.value.drop_duplicates,
                                     result.value.handle_missing, TRUE)
        IN  /\ check_outliers(out).raised = "" =>
                  check_outliers(out).value.total_outliers = 0
            /\ again.raised = ""
            /\ again.value = out

====
